---------------------------- MODULE Spec2Model ----------------------------
(***************************************************************************)
(* Model of the conversation / connection management layer of Unison      *)
(* (src/src/App.vue): the reactive state of the component, the functions  *)
(* of its <script setup> block, the template's input bindings and the     *)
(* events of the PeerJS transport it subscribes to.                       *)
(*                                                                         *)
(* Strings the code takes apart (peer identifiers, titles) are sequences  *)
(* of one-character strings; strings it only stores or compares (message  *)
(* texts, the error text) are TLA+ strings.                                *)
(*                                                                         *)
(* The functions of the script are translated whole, every branch          *)
(* included. The events that call them are those the page can deliver:    *)
(* each button and input exists only where the template renders it (its   *)
(* v-if and v-for), and only once the component is mounted.               *)
(***************************************************************************)
EXTENDS Integers, Sequences, FiniteSets, TLC

---------------------------------------------------------------------------
(* Bounds of the model *)

\* The model is bounded by the load of a state: the handles the transport
\* has made, those of them that are open, the texts handed to conn.send, the
\* messages received into the store, the conversations carrying a title the
\* user typed and the error timers pending. A step that adds to the load is
\* taken only below MaxLoad.
MaxLoad == 4

---------------------------------------------------------------------------
(* Values *)

\* activeConversationId = null (App.vue:18); conversation ids are 1, 2, ...
NULL == 0

\* '' for the strings held as character sequences
EmptyStr == << >>

\* the identifier the broker assigns to this peer
LocalId == <<"A", "1">>

\* remote peers: one shorter than the title's cut, one longer
RemoteIds == { <<"B", "2">>, <<"p", "e", "e", "r", "-", "0", "0", "7">> }

\* what the user can type into the connect form
Targets == RemoteIds \cup {LocalId, EmptyStr}

\* what the user can type into the composition buffer, '' included
Texts == {"", "Hello"}

\* payloads the remote side can deliver
Payloads == {"Hi"}

\* titles the user can type into a conversation's title input
NewTitles == {EmptyStr}

\* errorMessage of a rejected self-connection
SelfConnectError == "You can't connect to yourself!"

\* conn.peer.substring(0, 6)
TitleCut == 6

VARIABLES
    peerId,                 \* ref('') : local identifier, '' until the peer opens
    remotePeerId,           \* ref('') : connect-target input
    message,                \* ref('') : composition buffer
    conversations,          \* ref([]) : sequence of Conversation records
    activeConversationId,   \* ref(null)
    peer,                   \* ref(null) : TRUE once onMounted created the Peer
    connections,            \* ref({}) : peerId -> handle, a function on its keys
    errorMessage,           \* ref('')
    conns,                  \* the transport's DataConnection objects, by handle
    timers,                 \* pending setTimeout callbacks of connect()
    uuids,                  \* number of ids uuidv4() has issued
    lastOp                  \* the handler that ran last and the branch it took

vars == << peerId, remotePeerId, message, conversations, activeConversationId,
           peer, connections, errorMessage, conns, timers, uuids, lastOp >>

---------------------------------------------------------------------------
(* Pure helpers *)

\* String.prototype.substring(0, n)
Substring0(s, n) == SubSeq(s, 1, IF Len(s) < n THEN Len(s) ELSE n)

\* variant: the title takes the whole identifier
ChatTitle_NoCut(p) ==
    <<"C", "h", "a", "t", " ", "w", "i", "t", "h", " ">> \o p \o <<".", ".", ".">>

\* `Chat with ${conn.peer.substring(0, 6)}...`
ChatTitle(p) ==
    <<"C", "h", "a", "t", " ", "w", "i", "t", "h", " ">>
        \o Substring0(p, TitleCut) \o <<".", ".", ".">>

\* Array.prototype.findIndex / find, given the indices whose element passes
\* the callback: the first of them, 0 when there is none (the code's -1)
FindIndex(passing) ==
    IF passing = {} THEN 0
    ELSE CHOOSE i \in passing : \A j \in passing : i <= j

\* the indices of the conversations with this id
WithId(convs, id) == {i \in 1..Len(convs) : convs[i].id = id}

\* the indices of the conversations with this peerId
WithPeerId(convs, p) == {i \in 1..Len(convs) : convs[i].peerId = p}

\* Array.prototype.splice(index, 1)
Splice1(s, index) == SubSeq(s, 1, index - 1) \o SubSeq(s, index + 1, Len(s))

\* computed activeConversation: conversations.find(c => c.id === active) || null
ActiveIndex(convs, active) ==
    FindIndex(WithId(convs, active))

\* number of received messages held by the store
TotalReceived(convs) ==
    LET RECURSIVE Sum(_)
        Sum(i) == IF i = 0 THEN 0
                  ELSE Cardinality({k \in 1..Len(convs[i].messages) :
                                      convs[i].messages[k].sender = "Remote"})
                       + Sum(i - 1)
    IN Sum(Len(convs))

\* texts handed to conn.send over all handles
TotalSent(cs) ==
    LET RECURSIVE Sum(_)
        Sum(i) == IF i = 0 THEN 0 ELSE Len(cs[i].sent) + Sum(i - 1)
    IN Sum(Len(cs))


\* number of conversations whose title is no longer the one they were made with
TotalRenamed(convs) ==
    Cardinality({i \in 1..Len(convs) : convs[i].title # ChatTitle(convs[i].peerId)})

\* the load the bound is on
Load ==
    Len(conns) + Cardinality({h \in 1..Len(conns) : conns[h].open})
        + TotalSent(conns) + TotalReceived(conversations)
        + TotalRenamed(conversations) + timers

---------------------------------------------------------------------------
(* Initial state: the refs as the script declares them *)

Init ==
    /\ peerId = EmptyStr
    /\ remotePeerId = EmptyStr
    /\ message = ""
    /\ conversations = << >>
    /\ activeConversationId = NULL
    /\ peer = FALSE
    /\ connections = [k \in {} |-> 0]
    /\ errorMessage = ""
    /\ conns = << >>
    /\ timers = 0
    /\ uuids = 0
    /\ lastOp = "init"

---------------------------------------------------------------------------
(* Transport and lifecycle events *)

\* onMounted: peer.value = new Peer() and the two subscriptions
onMounted ==
    /\ ~peer
    /\ peer' = TRUE
    /\ lastOp' = "onMounted"
    /\ UNCHANGED << peerId, remotePeerId, message, conversations,
                    activeConversationId, connections, errorMessage, conns,
                    timers, uuids >>

\* peer.on('open', id => peerId.value = id)
PeerOpen ==
    /\ peer
    /\ peerId = EmptyStr
    /\ peerId' = LocalId
    /\ lastOp' = "peerOpen"
    /\ UNCHANGED << remotePeerId, message, conversations, activeConversationId,
                    peer, connections, errorMessage, conns, timers, uuids >>

\* variant: a peer that has a handle registered keeps it
SetupConnection_KeepFirst(p) ==
    LET h == Len(conns) + 1
        id == uuids + 1
        newConversation ==
            [id |-> id, title |-> ChatTitle(p), peerId |-> p, messages |-> << >>]
    IN  /\ conns' = Append(conns,
                [peer |-> p, open |-> FALSE, sent |-> << >>])
        /\ connections' = [k \in (DOMAIN connections) \cup {p} |->
                              IF k \in DOMAIN connections
                              THEN connections[k] ELSE h]
        /\ uuids' = id
        /\ conversations' = Append(conversations, newConversation)
        /\ activeConversationId' = id

\* variant: the new conversation is put in front of the list (unshift, not push)
SetupConnection_Unshift(p) ==
    LET h == Len(conns) + 1
        id == uuids + 1
        newConversation ==
            [id |-> id, title |-> ChatTitle(p), peerId |-> p, messages |-> << >>]
    IN  /\ conns' = Append(conns,
                [peer |-> p, open |-> FALSE, sent |-> << >>])
        /\ connections' = [k \in (DOMAIN connections) \cup {p} |->
                              IF k = p THEN h ELSE connections[k]]
        /\ uuids' = id
        /\ conversations' = << newConversation >> \o conversations
        /\ activeConversationId' = id

\* setupConnection(conn), conn being the handle the transport just made:
\* register, create the conversation, activate it, subscribe to 'data'
SetupConnection(p) ==
    LET h == Len(conns) + 1
        id == uuids + 1
        newConversation ==
            [id |-> id, title |-> ChatTitle(p), peerId |-> p, messages |-> << >>]
    IN  /\ conns' = Append(conns,
                [peer |-> p, open |-> FALSE, sent |-> << >>])
        /\ connections' = [k \in (DOMAIN connections) \cup {p} |->
                              IF k = p THEN h ELSE connections[k]]
        /\ uuids' = id
        /\ conversations' = Append(conversations, newConversation)
        /\ activeConversationId' = id

\* peer.on('connection', conn => setupConnection(conn)): the broker only
\* relays offers to a peer it has given an identifier
InboundConnection(p) ==
    /\ peer
    /\ peerId # EmptyStr
    /\ Load < MaxLoad
    /\ SetupConnection(p)
    /\ lastOp' = "connection"
    /\ UNCHANGED << peerId, remotePeerId, message, peer, errorMessage, timers >>

\* the handle's own 'open' event: the data channel is ready
HandleOpen(h) ==
    /\ ~conns[h].open
    /\ Load < MaxLoad
    /\ conns' = [conns EXCEPT ![h].open = TRUE]
    /\ lastOp' = "handleOpen"
    /\ UNCHANGED << peerId, remotePeerId, message, conversations,
                    activeConversationId, peer, connections, errorMessage,
                    timers, uuids >>

\* variant: the payload goes to every conversation of the peer (filter, not find)
OnData_AllMatching(h, data) ==
    LET i == FindIndex(WithPeerId(conversations, conns[h].peer))
    IN  /\ conns[h].open
        /\ Load < MaxLoad
        /\ conversations' = [k \in 1..Len(conversations) |->
                IF conversations[k].peerId = conns[h].peer
                THEN [conversations[k] EXCEPT !.messages =
                         Append(@, [sender |-> "Remote", content |-> data])]
                ELSE conversations[k]]
        /\ lastOp' = IF i # 0 THEN "data" ELSE "data:dropped"
        /\ UNCHANGED << peerId, remotePeerId, message, activeConversationId,
                        peer, connections, errorMessage, conns, timers, uuids >>

\* variant: the payload is put in front of the messages (unshift, not push)
OnData_Unshift(h, data) ==
    LET i == FindIndex(WithPeerId(conversations, conns[h].peer))
    IN  /\ conns[h].open
        /\ Load < MaxLoad
        /\ IF i # 0
           THEN conversations' = [conversations EXCEPT ![i].messages =
                    << [sender |-> "Remote", content |-> data] >> \o @]
           ELSE UNCHANGED conversations
        /\ lastOp' = IF i # 0 THEN "data" ELSE "data:dropped"
        /\ UNCHANGED << peerId, remotePeerId, message, activeConversationId,
                        peer, connections, errorMessage, conns, timers, uuids >>

\* variant: a payload on a handle the registry no longer holds is dropped
OnData_OnlyRegistered(h, data) ==
    LET i == IF connections[conns[h].peer] = h
             THEN FindIndex(WithPeerId(conversations, conns[h].peer))
             ELSE 0
    IN  /\ conns[h].open
        /\ Load < MaxLoad
        /\ IF i # 0
           THEN conversations' = [conversations EXCEPT ![i].messages =
                    Append(@, [sender |-> "Remote", content |-> data])]
           ELSE UNCHANGED conversations
        /\ lastOp' = IF i # 0 THEN "data" ELSE "data:dropped"
        /\ UNCHANGED << peerId, remotePeerId, message, activeConversationId,
                        peer, connections, errorMessage, conns, timers, uuids >>

\* conn.on('data', data => ...) of handle h, closed over conn
OnData(h, data) ==
    LET i == FindIndex(WithPeerId(conversations, conns[h].peer))
    IN  /\ conns[h].open
        /\ Load < MaxLoad
        /\ IF i # 0
           THEN conversations' = [conversations EXCEPT ![i].messages =
                    Append(@, [sender |-> "Remote", content |-> data])]
           ELSE UNCHANGED conversations
        /\ lastOp' = IF i # 0 THEN "data" ELSE "data:dropped"
        /\ UNCHANGED << peerId, remotePeerId, message, activeConversationId,
                        peer, connections, errorMessage, conns, timers, uuids >>

\* the callback of setTimeout(..., 3000) in connect(). The timers all have
\* the same delay and fire in the order they were set, so the ones pending
\* are those of the latest attempts.
TimerFire ==
    /\ timers > 0
    /\ timers' = timers - 1
    /\ errorMessage' = ""
    /\ lastOp' = "timer"
    /\ UNCHANGED << peerId, remotePeerId, message, conversations,
                    activeConversationId, peer, connections, conns, uuids >>

---------------------------------------------------------------------------
(* Functions of the script *)

\* variant: the self-connection branch lacks its return
connect_NoReturn ==
    /\ lastOp' = IF peer /\ remotePeerId # EmptyStr
                 THEN IF remotePeerId = peerId THEN "connect:self" ELSE "connect"
                 ELSE "connect:noop"
    /\ IF peer /\ remotePeerId # EmptyStr
       THEN /\ Load < MaxLoad
            /\ IF remotePeerId = peerId
               THEN /\ Load + 1 < MaxLoad
                    /\ errorMessage' = SelfConnectError
                    /\ timers' = timers + 1
               ELSE UNCHANGED << errorMessage, timers >>
            /\ SetupConnection(remotePeerId)
       ELSE UNCHANGED << conversations, activeConversationId, connections,
                         conns, uuids, errorMessage, timers >>
    /\ UNCHANGED << peerId, remotePeerId, message, peer >>

\* variant: the condition does not look at the target
connect_NoEmptyCheck ==
    /\ lastOp' = IF peer
                 THEN IF remotePeerId = peerId THEN "connect:self" ELSE "connect"
                 ELSE "connect:noop"
    /\ IF peer
       THEN IF remotePeerId = peerId
            THEN /\ Load < MaxLoad
                 /\ errorMessage' = SelfConnectError
                 /\ timers' = timers + 1
                 /\ UNCHANGED << conversations, activeConversationId,
                                 connections, conns, uuids >>
            ELSE /\ Load < MaxLoad
                 /\ SetupConnection(remotePeerId)
                 /\ UNCHANGED << errorMessage, timers >>
       ELSE UNCHANGED << conversations, activeConversationId, connections,
                         conns, uuids, errorMessage, timers >>
    /\ UNCHANGED << peerId, remotePeerId, message, peer >>

connect ==
    /\ lastOp' = IF peer /\ remotePeerId # EmptyStr
                 THEN IF remotePeerId = peerId THEN "connect:self" ELSE "connect"
                 ELSE "connect:noop"
    /\ IF peer /\ remotePeerId # EmptyStr
       THEN IF remotePeerId = peerId
            THEN /\ Load < MaxLoad
                 /\ errorMessage' = SelfConnectError
                 /\ timers' = timers + 1
                 /\ UNCHANGED << conversations, activeConversationId,
                                 connections, conns, uuids >>
            ELSE /\ Load < MaxLoad
                 /\ SetupConnection(remotePeerId)
                 /\ UNCHANGED << errorMessage, timers >>
       ELSE UNCHANGED << conversations, activeConversationId, connections,
                         conns, uuids, errorMessage, timers >>
    /\ UNCHANGED << peerId, remotePeerId, message, peer >>

\* variant: the message goes to the conversation found by the peer's
\* identifier, not to the active one
sendMessage_ByPeer ==
    LET a == ActiveIndex(conversations, activeConversationId)
        ok == /\ activeConversationId # NULL
              /\ conversations[a].peerId \in DOMAIN connections
              /\ message # ""
    IN  /\ activeConversationId # NULL => a # 0
        /\ lastOp' = IF ok THEN "sendMessage" ELSE "sendMessage:noop"
        /\ IF ok
           THEN LET conn == connections[conversations[a].peerId]
                    b == FindIndex(WithPeerId(conversations, conversations[a].peerId))
                IN
                /\ Load < MaxLoad
                /\ conns' = [conns EXCEPT ![conn].sent = Append(@, message)]
                /\ conversations' = [conversations EXCEPT ![b].messages =
                        Append(@, [sender |-> "You", content |-> message])]
                /\ message' = ""
           ELSE UNCHANGED << conns, conversations, message >>
        /\ UNCHANGED << peerId, remotePeerId, activeConversationId, peer,
                        connections, errorMessage, timers, uuids >>

\* variant: the condition does not look at the buffer
sendMessage_NoBufferCheck ==
    LET a == ActiveIndex(conversations, activeConversationId)
        ok == /\ activeConversationId # NULL
              /\ conversations[a].peerId \in DOMAIN connections
    IN  /\ activeConversationId # NULL => a # 0
        /\ lastOp' = IF ok THEN "sendMessage" ELSE "sendMessage:noop"
        /\ IF ok
           THEN LET conn == connections[conversations[a].peerId] IN
                /\ Load < MaxLoad
                /\ conns' = [conns EXCEPT ![conn].sent = Append(@, message)]
                /\ conversations' = [conversations EXCEPT ![a].messages =
                        Append(@, [sender |-> "You", content |-> message])]
                /\ message' = ""
           ELSE UNCHANGED << conns, conversations, message >>
        /\ UNCHANGED << peerId, remotePeerId, activeConversationId, peer,
                        connections, errorMessage, timers, uuids >>

sendMessage ==
    LET a == ActiveIndex(conversations, activeConversationId)
        ok == /\ activeConversationId # NULL
              /\ conversations[a].peerId \in DOMAIN connections
              /\ message # ""
    IN  \* activeConversation.value!.peerId throws on a dangling active id
        /\ activeConversationId # NULL => a # 0
        /\ lastOp' = IF ok THEN "sendMessage" ELSE "sendMessage:noop"
        /\ IF ok
           THEN LET conn == connections[conversations[a].peerId] IN
                /\ Load < MaxLoad
                /\ conns' = [conns EXCEPT ![conn].sent = Append(@, message)]
                /\ conversations' = [conversations EXCEPT ![a].messages =
                        Append(@, [sender |-> "You", content |-> message])]
                /\ message' = ""
           ELSE UNCHANGED << conns, conversations, message >>
        /\ UNCHANGED << peerId, remotePeerId, activeConversationId, peer,
                        connections, errorMessage, timers, uuids >>

\* variant: the composition buffer is cleared as well
newConversation_ClearBuffer ==
    /\ remotePeerId' = EmptyStr
    /\ activeConversationId' = NULL
    /\ message' = ""
    /\ lastOp' = "newConversation"
    /\ UNCHANGED << peerId, conversations, peer, connections,
                    errorMessage, conns, timers, uuids >>

newConversation ==
    /\ remotePeerId' = EmptyStr
    /\ activeConversationId' = NULL
    /\ lastOp' = "newConversation"
    /\ UNCHANGED << peerId, message, conversations, peer, connections,
                    errorMessage, conns, timers, uuids >>

\* variant: the active id is left as it is
deleteConversation_KeepActive(id) ==
    LET index == FindIndex(WithId(conversations, id))
        rest == Splice1(conversations, index)
    IN  /\ lastOp' = IF index = 0 THEN "deleteConversation:absent"
                     ELSE IF activeConversationId = id
                          THEN "deleteConversation:active"
                          ELSE "deleteConversation"
        /\ IF index # 0
           THEN conversations' = rest
           ELSE UNCHANGED conversations
        /\ UNCHANGED << peerId, remotePeerId, message, peer, connections,
                        errorMessage, conns, timers, uuids, activeConversationId >>

\* variant: the fallback is the last remaining conversation
deleteConversation_LastRemaining(id) ==
    LET index == FindIndex(WithId(conversations, id))
        rest == Splice1(conversations, index)
    IN  /\ lastOp' = IF index = 0 THEN "deleteConversation:absent"
                     ELSE IF activeConversationId = id
                          THEN "deleteConversation:active"
                          ELSE "deleteConversation"
        /\ IF index # 0
           THEN /\ conversations' = rest
                /\ IF activeConversationId = id
                   THEN activeConversationId' =
                            IF Len(rest) > 0 THEN rest[Len(rest)].id ELSE NULL
                   ELSE UNCHANGED activeConversationId
           ELSE UNCHANGED << conversations, activeConversationId >>
        /\ UNCHANGED << peerId, remotePeerId, message, peer, connections,
                        errorMessage, conns, timers, uuids >>

\* variant: the registry entry of the deleted conversation's peer goes with it
deleteConversation_Unregister(id) ==
    LET index == FindIndex(WithId(conversations, id))
        rest == Splice1(conversations, index)
    IN  /\ lastOp' = IF index = 0 THEN "deleteConversation:absent"
                     ELSE IF activeConversationId = id
                          THEN "deleteConversation:active"
                          ELSE "deleteConversation"
        /\ IF index # 0
           THEN /\ conversations' = rest
                /\ connections' =
                      [k \in (DOMAIN connections) \ {conversations[index].peerId}
                          |-> connections[k]]
                /\ IF activeConversationId = id
                   THEN activeConversationId' =
                            IF Len(rest) > 0 THEN rest[1].id ELSE NULL
                   ELSE UNCHANGED activeConversationId
           ELSE UNCHANGED << conversations, activeConversationId, connections >>
        /\ UNCHANGED << peerId, remotePeerId, message, peer,
                        errorMessage, conns, timers, uuids >>

\* variant: the fallback is applied whichever conversation is deleted
deleteConversation_AlwaysReset(id) ==
    LET index == FindIndex(WithId(conversations, id))
        rest == Splice1(conversations, index)
    IN  /\ lastOp' = IF index = 0 THEN "deleteConversation:absent"
                     ELSE IF activeConversationId = id
                          THEN "deleteConversation:active"
                          ELSE "deleteConversation"
        /\ IF index # 0
           THEN /\ conversations' = rest
                /\ activeConversationId' =
                       IF Len(rest) > 0 THEN rest[1].id ELSE NULL
           ELSE UNCHANGED << conversations, activeConversationId >>
        /\ UNCHANGED << peerId, remotePeerId, message, peer, connections,
                        errorMessage, conns, timers, uuids >>

deleteConversation(id) ==
    LET index == FindIndex(WithId(conversations, id))
        rest == Splice1(conversations, index)
    IN  /\ lastOp' = IF index = 0 THEN "deleteConversation:absent"
                     ELSE IF activeConversationId = id
                          THEN "deleteConversation:active"
                          ELSE "deleteConversation"
        /\ IF index # 0
           THEN /\ conversations' = rest
                /\ IF activeConversationId = id
                   THEN activeConversationId' =
                            IF Len(rest) > 0 THEN rest[1].id ELSE NULL
                   ELSE UNCHANGED activeConversationId
           ELSE UNCHANGED << conversations, activeConversationId >>
        /\ UNCHANGED << peerId, remotePeerId, message, peer, connections,
                        errorMessage, conns, timers, uuids >>

\* variant: an empty title is refused
renameConversation_RejectEmpty(id, newTitle) ==
    LET i == FindIndex(WithId(conversations, id))
    IN  /\ lastOp' = IF i # 0 THEN "renameConversation"
                     ELSE "renameConversation:absent"
        /\ IF i # 0 /\ newTitle # EmptyStr
           THEN conversations' = [conversations EXCEPT ![i].title = newTitle]
           ELSE UNCHANGED conversations
        /\ UNCHANGED << peerId, remotePeerId, message, activeConversationId,
                        peer, connections, errorMessage, conns, timers, uuids >>

renameConversation(id, newTitle) ==
    LET i == FindIndex(WithId(conversations, id))
    IN  /\ lastOp' = IF i # 0 THEN "renameConversation"
                     ELSE "renameConversation:absent"
        /\ IF i # 0
           THEN conversations' = [conversations EXCEPT ![i].title = newTitle]
           ELSE UNCHANGED conversations
        /\ UNCHANGED << peerId, remotePeerId, message, activeConversationId,
                        peer, connections, errorMessage, conns, timers, uuids >>

---------------------------------------------------------------------------
(* Events of the page: the template's bindings *)

\* <input v-model="remotePeerId"> inside v-if="!activeConversationId"
TypeRemotePeerId(t) ==
    /\ peer
    /\ activeConversationId = NULL
    /\ remotePeerId # t
    \* the local identifier is a token the broker makes up: the user can
    \* only enter it once the page shows it
    /\ t = LocalId => peerId = LocalId
    /\ remotePeerId' = t
    /\ lastOp' = "input"
    /\ UNCHANGED << peerId, message, conversations, activeConversationId, peer,
                    connections, errorMessage, conns, timers, uuids >>

\* <textarea v-model="message"> inside v-if="activeConversationId === conv.id"
TypeMessage(t) ==
    /\ ActiveIndex(conversations, activeConversationId) # 0
    /\ message # t
    /\ message' = t
    /\ lastOp' = "input"
    /\ UNCHANGED << peerId, remotePeerId, conversations, activeConversationId,
                    peer, connections, errorMessage, conns, timers, uuids >>

\* <div class="messages" @click="activeConversationId = conv.id">, per v-for
ClickConversation(i) ==
    /\ activeConversationId # conversations[i].id
    /\ activeConversationId' = conversations[i].id
    /\ lastOp' = "input"
    /\ UNCHANGED << peerId, remotePeerId, message, conversations, peer,
                    connections, errorMessage, conns, timers, uuids >>

\* <button @click="connect"> inside v-if="!activeConversationId"
ClickConnect ==
    /\ peer
    /\ activeConversationId = NULL
    /\ connect

\* <button @click="sendMessage"> inside v-if="activeConversationId === conv.id"
ClickSend ==
    /\ ActiveIndex(conversations, activeConversationId) # 0
    /\ sendMessage

\* <button @click="newConversation">
ClickNewChat ==
    /\ peer
    /\ newConversation

\* <button @click="deleteConversation(conv.id)">, per v-for
ClickDelete(i) == deleteConversation(conversations[i].id)

\* <input v-model="conv.title" @blur="renameConversation(conv.id, conv.title)">:
\* the user edits the title to t and leaves the field
BlurTitle(i, t) ==
    /\ conversations[i].title # t
    /\ renameConversation(conversations[i].id, t)
    /\ Load' <= MaxLoad

---------------------------------------------------------------------------

Next ==
    \/ onMounted
    \/ PeerOpen
    \/ \E p \in RemoteIds : InboundConnection(p)
    \/ \E h \in 1..Len(conns) : HandleOpen(h)
    \/ \E h \in 1..Len(conns), d \in Payloads : OnData(h, d)
    \/ TimerFire
    \/ \E t \in Targets : TypeRemotePeerId(t)
    \/ \E t \in Texts : TypeMessage(t)
    \/ \E i \in 1..Len(conversations) : ClickConversation(i)
    \/ ClickConnect
    \/ ClickSend
    \/ ClickNewChat
    \/ \E i \in 1..Len(conversations) : ClickDelete(i)
    \/ \E i \in 1..Len(conversations), t \in NewTitles : BlurTitle(i, t)

Spec == Init /\ [][Next]_vars

---------------------------------------------------------------------------
(* Properties *)

\* the ids of the conversations in the store
ConvIds == {conversations[i].id : i \in 1..Len(conversations)}

IsPrefix(s, t) == Len(s) <= Len(t) /\ SubSeq(t, 1, Len(s)) = s

\* the condition of sendMessage's if, read in the state before the call
CanSend ==
    /\ activeConversationId # NULL
    /\ \E i \in 1..Len(conversations) :
          /\ conversations[i].id = activeConversationId
          /\ conversations[i].peerId \in DOMAIN connections
    /\ message # ""

\* C1: activeConversationId is null or the id of a conversation in the store,
\* in every reachable state.
C1_ActiveIsNullOrExisting ==
    activeConversationId = NULL \/ activeConversationId \in ConvIds

\* the active conversation was just deleted and another one took its place
C1_Witness ==
    /\ lastOp = "deleteConversation:active"
    /\ activeConversationId \in ConvIds

\* C2: no two conversations in the store have the same peerId.
C2_PeerIdUnique ==
    \A i, j \in 1..Len(conversations) :
        conversations[i].peerId = conversations[j].peerId => i = j

\* C3: deleting the active conversation activates the first conversation that
\* remains, in list order, or nothing when none remains.
C3_DeleteActiveFallsBackToFirst ==
    [][\A i \in 1..Len(conversations) :
          (ClickDelete(i) /\ conversations[i].id = activeConversationId) =>
              activeConversationId' =
                  IF Len(conversations) = 1 THEN NULL
                  ELSE IF i = 1 THEN conversations[2].id
                  ELSE conversations[1].id]_vars

\* the active conversation was deleted while two others remained, and it
\* was not the first of the list
C3_Witness ==
    /\ lastOp = "deleteConversation:active"
    /\ Len(conversations) = 2
    /\ activeConversationId = conversations[1].id
    /\ conversations[1].id < conversations[2].id
    /\ uuids = 3

\* C4: a successful sendMessage appends one {You, buffer} message to the end
\* of the active conversation, hands the text once to that peer's handle,
\* empties the buffer and changes no other conversation.
C4_SendAppendsOnceAndClears ==
    [][(sendMessage /\ CanSend) =>
         LET a == CHOOSE i \in 1..Len(conversations) :
                      conversations[i].id = activeConversationId
             h == connections[conversations[a].peerId]
         IN  /\ Len(conversations') = Len(conversations)
             /\ conversations'[a] = [conversations[a] EXCEPT !.messages =
                    Append(@, [sender |-> "You", content |-> message])]
             /\ \A i \in 1..Len(conversations) :
                    i # a => conversations'[i] = conversations[i]
             /\ Len(conns') = Len(conns)
             /\ conns'[h].sent = Append(conns[h].sent, message)
             /\ \A k \in 1..Len(conns) : k # h => conns'[k] = conns[k]
             /\ message' = ""]_vars

\* a message was sent from the second of two conversations with the same peer
C4_Witness ==
    /\ lastOp = "sendMessage"
    /\ Len(conversations) = 2
    /\ conversations[1].peerId = conversations[2].peerId
    /\ activeConversationId = conversations[2].id
    /\ conversations[2].messages = << [sender |-> "You", content |-> "Hello"] >>

\* C5: a payload arriving on a handle of peer P changes no conversation of
\* another peer, adds {Remote, payload} to the end of at most one conversation
\* of P, and changes nothing at all when the store has no conversation of P.
C5_DataReachesOnlyItsPeer ==
    [][\A h \in 1..Len(conns), d \in Payloads :
          OnData(h, d) =>
            LET P == conns[h].peer
                changed == {i \in 1..Len(conversations) :
                               conversations'[i] # conversations[i]}
            IN  /\ Len(conversations') = Len(conversations)
                /\ \A i \in changed :
                      /\ conversations[i].peerId = P
                      /\ conversations'[i] = [conversations[i] EXCEPT !.messages =
                             Append(@, [sender |-> "Remote", content |-> d])]
                /\ Cardinality(changed) <= 1
                /\ (\A i \in 1..Len(conversations) : conversations[i].peerId # P)
                      => /\ conversations' = conversations
                         /\ activeConversationId' = activeConversationId
                         /\ connections' = connections]_vars

\* a payload arrived while two conversations of its peer were in the store
C5_Witness ==
    /\ lastOp = "data"
    /\ Len(conversations) = 2
    /\ conversations[1].peerId = conversations[2].peerId
    /\ conversations[1].messages = << [sender |-> "Remote", content |-> "Hi"] >>
    /\ conversations[2].messages = << >>

\* C6: connect() with the local identifier as target sets a non-empty
\* errorMessage and starts no connection, registers no handle, creates no
\* conversation and leaves activeConversationId alone.
C6_SelfConnectRejected ==
    [][(connect /\ peer /\ remotePeerId # EmptyStr /\ remotePeerId = peerId) =>
          /\ errorMessage' # ""
          /\ conns' = conns
          /\ connections' = connections
          /\ conversations' = conversations
          /\ activeConversationId' = activeConversationId]_vars

\* a self-connection was just rejected
C6_Witness ==
    /\ lastOp = "connect:self"
    /\ remotePeerId = LocalId
    /\ errorMessage = SelfConnectError

\* C7: right after connect() to a valid target, while the handle it made has
\* not had its open event, no conversation for the target is in the store.
C7_NoConversationBeforeOpen ==
    (lastOp = "connect" /\ ~conns[Len(conns)].open) =>
        \A i \in 1..Len(conversations) :
            conversations[i].peerId # conns[Len(conns)].peer

\* the title the spec gives the conversation of each remote peer
C8_Title(p) ==
    IF p = <<"B", "2">>
    THEN <<"C", "h", "a", "t", " ", "w", "i", "t", "h", " ", "B", "2", ".", ".", ".">>
    ELSE <<"C", "h", "a", "t", " ", "w", "i", "t", "h", " ",
           "p", "e", "e", "r", "-", "0", ".", ".", ".">>

\* C8: an inbound connection from P appends one conversation {peerId P, no
\* messages, title "Chat with " + first 6 characters of P + "..."} with a fresh
\* id to the end of the list and activates it, whatever was active before.
C8_InboundCreatesAndActivates ==
    [][\A p \in RemoteIds :
          InboundConnection(p) =>
            /\ Len(conversations') = Len(conversations) + 1
            /\ SubSeq(conversations', 1, Len(conversations)) = conversations
            /\ LET c == conversations'[Len(conversations')]
               IN  /\ c.peerId = p
                   /\ c.messages = << >>
                   /\ c.title = C8_Title(p)
                   /\ c.id \notin ConvIds
                   /\ c.id # NULL
                   /\ activeConversationId' = c.id]_vars

\* an inbound connection from the long identifier arrived while another
\* conversation was in the store
C8_Witness ==
    /\ lastOp = "connection"
    /\ Len(conversations) = 2
    /\ conversations[2].peerId = <<"p", "e", "e", "r", "-", "0", "0", "7">>
    /\ activeConversationId = conversations[2].id

\* C9: across every step, the messages of a conversation that stays in the
\* store are a prefix of its messages afterwards.
C9_MessagesAppendOnly ==
    [][\A i \in 1..Len(conversations), j \in 1..Len(conversations') :
          conversations[i].id = conversations'[j].id =>
              IsPrefix(conversations[i].messages, conversations'[j].messages)]_vars

\* the scenario of the spec: connected to B2, "Hello" sent, "Hi" received
C9_Witness ==
    \E i \in 1..Len(conversations) :
        /\ conversations[i].peerId = <<"B", "2">>
        /\ conversations[i].messages =
               << [sender |-> "You", content |-> "Hello"],
                  [sender |-> "Remote", content |-> "Hi"] >>

\* C10: sendMessage with no active conversation, no handle registered for the
\* active conversation's peer or an empty buffer transmits nothing, appends
\* nothing, keeps the buffer and sets no error.
C10_SendNoOp ==
    [][(sendMessage /\ ~CanSend) =>
          /\ conns' = conns
          /\ conversations' = conversations
          /\ message' = message
          /\ errorMessage' = errorMessage
          /\ UNCHANGED << peerId, remotePeerId, activeConversationId, peer,
                          connections, timers, uuids >>]_vars

\* sendMessage was called with an empty buffer in an active conversation
C10_Witness ==
    /\ lastOp = "sendMessage:noop"
    /\ activeConversationId \in ConvIds
    /\ message = ""

\* C11: newConversation() empties the connect-target input and sets the
\* active id to null; the conversations, the registry and the composition
\* buffer stay as they are.
C11_NewConversationTouchesNoRecord ==
    [][newConversation =>
          /\ remotePeerId' = EmptyStr
          /\ activeConversationId' = NULL
          /\ conversations' = conversations
          /\ connections' = connections
          /\ message' = message]_vars

\* newConversation ran with a conversation in the store and text in the buffer
C11_Witness ==
    /\ lastOp = "newConversation"
    /\ Len(conversations) >= 1
    /\ DOMAIN connections # {}
    /\ message = "Hello"
    /\ activeConversationId = NULL
    /\ remotePeerId = EmptyStr

\* the handle made last for peer p
C12_Latest(p) ==
    CHOOSE h \in 1..Len(conns) :
        /\ conns[h].peer = p
        /\ \A k \in 1..Len(conns) : conns[k].peer = p => k <= h

\* C12: the registry has an entry for exactly the peers a handle was made
\* for, each entry is the handle made last for its peer, and a successful
\* sendMessage hands the text to that handle and to no other.
C12_RegistryHoldsLatestHandle ==
    /\ [](/\ DOMAIN connections = {conns[h].peer : h \in 1..Len(conns)}
          /\ \A p \in DOMAIN connections : connections[p] = C12_Latest(p))
    /\ [][(sendMessage /\ CanSend) =>
            LET a == CHOOSE i \in 1..Len(conversations) :
                         conversations[i].id = activeConversationId
                h == C12_Latest(conversations[a].peerId)
            IN  /\ conns'[h].sent = Append(conns[h].sent, message)
                /\ \A k \in 1..Len(conns) : k # h => conns'[k] = conns[k]]_vars

\* a message was sent from the older of two conversations of one peer: it
\* went to the second handle, not to the one that conversation came with
C12_Witness ==
    /\ lastOp = "sendMessage"
    /\ Len(conversations) = 2
    /\ Len(conns) = 2
    /\ conns[1].peer = conns[2].peer
    /\ activeConversationId = conversations[1].id
    /\ conversations[1].id = 1
    /\ conns[1].sent = << >>
    /\ conns[2].sent = << "Hello" >>

\* C13: after a rejected self-connection the error stays visible until the
\* timer that attempt started fires: while the timer of the latest attempt
\* is pending, errorMessage is not empty.
C13_ErrorVisibleUntilOwnTimer ==
    timers > 0 => errorMessage # ""

\* C14: connect() with an empty target, or with no Peer object yet, starts no
\* connection, registers no handle, creates no conversation and leaves
\* activeConversationId and errorMessage as they are.
C14_ConnectEmptyTargetNoOp ==
    [][(connect /\ (~peer \/ remotePeerId = EmptyStr)) =>
          /\ conns' = conns
          /\ connections' = connections
          /\ conversations' = conversations
          /\ activeConversationId' = activeConversationId
          /\ errorMessage' = errorMessage
          /\ UNCHANGED << peerId, remotePeerId, message, peer, timers, uuids >>]_vars

\* connect() was called with an empty target after the local identifier was
\* assigned and a conversation had been made
C14_Witness ==
    /\ lastOp = "connect:noop"
    /\ remotePeerId = EmptyStr
    /\ peerId = LocalId
    /\ uuids >= 1

\* C15: renameConversation(id, t) gives the conversation with that id the
\* title t, the empty title included, and changes nothing else: not its id,
\* peerId or messages, no other conversation, not the order, the active id or
\* the registry; with an id that is not in the store it changes nothing. In
\* every step, a conversation that stays in the store keeps its peerId.
C15_RenameChangesOnlyTitle ==
    /\ [][\A id \in 1..(uuids + 1), t \in NewTitles :
            renameConversation(id, t) =>
              /\ Len(conversations') = Len(conversations)
              /\ \A k \in 1..Len(conversations) :
                    /\ conversations'[k].id = conversations[k].id
                    /\ conversations'[k].peerId = conversations[k].peerId
                    /\ conversations'[k].messages = conversations[k].messages
                    /\ conversations'[k].title =
                          IF conversations[k].id = id THEN t
                          ELSE conversations[k].title
              /\ activeConversationId' = activeConversationId
              /\ connections' = connections
              /\ conns' = conns]_vars
    /\ [][\A i \in 1..Len(conversations), j \in 1..Len(conversations') :
            conversations[i].id = conversations'[j].id =>
                conversations[i].peerId = conversations'[j].peerId]_vars

\* the second of two conversations was given the empty title; it holds a
\* message and is not the active one
C15_Witness ==
    /\ lastOp = "renameConversation"
    /\ Len(conversations) = 2
    /\ conversations[1].title = ChatTitle(conversations[1].peerId)
    /\ conversations[2].title = EmptyStr
    /\ conversations[2].messages # << >>
    /\ activeConversationId = conversations[1].id

\* C16: every conversation in the store has a handle of its peer registered
\* under its peerId, so with an active conversation and a non-empty buffer
\* the condition of sendMessage holds.
C16_EveryConversationHasAHandle ==
    /\ \A i \in 1..Len(conversations) :
          /\ conversations[i].peerId \in DOMAIN connections
          /\ connections[conversations[i].peerId] \in 1..Len(conns)
          /\ conns[connections[conversations[i].peerId]].peer =
                conversations[i].peerId
    /\ (activeConversationId # NULL /\ message # "") => CanSend

\* one of two conversations of a peer was deleted; the other is active with
\* text in the buffer
C16_Witness ==
    /\ lastOp \in {"deleteConversation", "deleteConversation:active"}
    /\ Len(conns) = 2
    /\ conns[1].peer = conns[2].peer
    /\ Len(conversations) = 1
    /\ activeConversationId = conversations[1].id
    /\ message = "Hello"

\* C17: deleteConversation(id) of a conversation that is not the active one
\* removes that record only: the active id, the other conversations with
\* their order and contents, the registry and the handles stay; with an id
\* that is not in the store nothing changes.
C17_DeleteInactiveRemovesOnlyIt ==
    [][\A id \in 1..(uuids + 1) :
          (deleteConversation(id) /\ id # activeConversationId) =>
            /\ activeConversationId' = activeConversationId
            /\ connections' = connections
            /\ conns' = conns
            /\ IF id \in ConvIds
               THEN LET i == CHOOSE k \in 1..Len(conversations) :
                                 conversations[k].id = id
                    IN  /\ Len(conversations') = Len(conversations) - 1
                        /\ \A k \in 1..(i - 1) :
                              conversations'[k] = conversations[k]
                        /\ \A k \in i..(Len(conversations) - 1) :
                              conversations'[k] = conversations[k + 1]
               ELSE conversations' = conversations]_vars

\* the first of three conversations was deleted while the third was active
C17_Witness ==
    /\ lastOp = "deleteConversation"
    /\ uuids = 3
    /\ Len(conversations) = 2
    /\ conversations[1].id = 2
    /\ conversations[2].id = 3
    /\ activeConversationId = 3
    /\ DOMAIN connections # {}

\* C18: deleting a conversation leaves the registry and the handles as they
\* are, and a payload arriving on any open handle of peer P, a superseded one
\* included, is appended to the first conversation of P in list order
\* whenever the store has one.
C18_DataOnOldHandleReachesPeersConversation ==
    /\ [][\A i \in 1..Len(conversations) :
            ClickDelete(i) => (connections' = connections /\ conns' = conns)]_vars
    /\ [][\A h \in 1..Len(conns), d \in Payloads :
            (/\ OnData(h, d)
             /\ \E i \in 1..Len(conversations) :
                    conversations[i].peerId = conns[h].peer) =>
              LET first == CHOOSE i \in 1..Len(conversations) :
                     /\ conversations[i].peerId = conns[h].peer
                     /\ \A k \in 1..(i - 1) :
                           conversations[k].peerId # conns[h].peer
              IN  /\ Len(conversations') = Len(conversations)
                  /\ conversations'[first].messages =
                        Append(conversations[first].messages,
                               [sender |-> "Remote", content |-> d])
                  /\ \A k \in 1..Len(conversations) :
                        k # first => conversations'[k] = conversations[k]]_vars

\* the conversation that came with handle 1 was deleted, a second connection
\* with the same peer made conversation 2, whose handle is not open: the
\* payload that conversation 2 holds arrived on handle 1
C18_Witness ==
    /\ lastOp = "data"
    /\ Len(conns) = 2
    /\ conns[1].peer = conns[2].peer
    /\ conns[1].open
    /\ ~conns[2].open
    /\ Len(conversations) = 1
    /\ conversations[1].id = 2
    /\ conversations[1].messages = << [sender |-> "Remote", content |-> "Hi"] >>

\* the ids of a list of conversations, in list order
C19_Ids(convs) == [k \in 1..Len(convs) |-> convs[k].id]

\* C19: the conversations are always in the order they were created in (ids
\* are issued in creation order); a step leaves the list's ids as they are,
\* adds one new id at the end or takes one id out; and deleting the active
\* conversation activates the oldest conversation that remains.
C19_ListInCreationOrder ==
    /\ [](\A i, j \in 1..Len(conversations) :
            i < j => conversations[i].id < conversations[j].id)
    /\ [][LET old == C19_Ids(conversations)
              new == C19_Ids(conversations')
          IN  /\ \/ new = old
                 \/ /\ Len(new) = Len(old) + 1
                    /\ SubSeq(new, 1, Len(old)) = old
                    /\ \A k \in 1..Len(old) : old[k] < new[Len(new)]
                 \/ \E i \in 1..Len(old) : new = Splice1(old, i)
              /\ (lastOp' = "deleteConversation:active" /\ Len(new) > 0) =>
                    /\ \E k \in 1..Len(new) : activeConversationId' = new[k]
                    /\ \A k \in 1..Len(new) : activeConversationId' <= new[k]]_vars

\* the oldest of three conversations was active and was deleted: the second
\* oldest is active now
C19_Witness ==
    /\ lastOp = "deleteConversation:active"
    /\ uuids = 3
    /\ Len(conversations) = 2
    /\ conversations[1].id = 2
    /\ conversations[2].id = 3
    /\ activeConversationId = 2

====
